---- MODULE Spec2Model ----
(***************************************************************************)
(* Knowledge-base documents of the content-automation app: the             *)
(* kb_documents table with its two BEFORE UPDATE triggers (schema          *)
(* migration), and the HTTP handlers that write to it: create, PATCH,      *)
(* DELETE and rollback.                                                    *)
(***************************************************************************)
EXTENDS Integers, Sequences, FiniteSets, TLC

VARIABLES
    table,   \* kb_documents: id -> row, for the ids that have a row
    nextId,  \* the next value uuid_generate_v4() hands out
    now,     \* NOW(): a logical clock, one tick per INSERT/UPDATE statement
    req,     \* rollback requests between their SELECT and their UPDATE
    last,    \* history variable: the last request handled and its response
    log,     \* history variable: per id, every state a content change replaced
    cnt,     \* history variable: per id, counts of the calls that succeeded
    memo,    \* history variable: the last write that succeeded, where kept
    page,    \* the knowledge-base page of each browser session
    cron,    \* the daily-generate cron endpoint and what it reads and calls
    pub,     \* drafts, sources, published_posts and the publish handlers
    ext      \* the browser extension: its stored session and its clock

vars == <<table, nextId, now, req, last, log, cnt, memo, page, cron, pub, ext>>

\* The knowledge-base part of the state.
kb == <<table, nextId, now, req, last, log, cnt, memo, page>>

----------------------------------------------------------------------------
(* Bounds of the exploration.                                              *)

MaxIds == 2             \* rows ever inserted, Spec
MaxVersion == 3         \* highest version a row reaches, Spec
MaxNoop == 1            \* updates per row that leave content as it is,
                        \* SpecDoc and SpecDeep
MaxVersionDoc == 4      \* highest version, SpecDoc
MaxVersionDeep == 12    \* highest version, SpecDeep
MaxVersionRace == 3     \* highest version, SpecRace
MaxNoopRace == 1        \* updates per row that leave content as it is, SpecRace
MaxVersionPair == 3     \* highest version, SpecPair
MaxVersionDeepRace == 13 \* highest version, SpecDeepRace
MaxVersionSolo == 2     \* highest version, SpecSolo
MaxVersionShared == 3   \* highest version, SpecShared
MaxNoopShared == 1      \* updates per row that leave content as it is,
                        \* SpecShared
MaxDay == 2             \* UTC dates, SpecCron
MaxPosts == 2           \* published posts ever inserted, SpecPub
MaxPostsMetrics == 1    \* published posts ever inserted, SpecMetrics
MaxTicks == 4           \* steps of the extension's clock, SpecExt

(* jsonb_array_length(NEW.previous_versions) > 10 ... LIMIT 10 *)
HistoryLimit == 10

\* The requests that can be under way at once: a rollback between its SELECT
\* and its UPDATE, a PATCH between its arrival and its UPDATE.
Clients == {"c1", "c2"}

----------------------------------------------------------------------------
(* Values.                                                                 *)

\* An optional value: <<>> is JavaScript's undefined, <<x>> is x.
Opt(S) == {<<>>} \cup {<<x>> : x \in S}

Min(a, b) == IF a < b THEN a ELSE b

\* The request body of PATCH /api/kb-documents/[id].
Bodies(titles, contents, actives) ==
    [title : Opt(titles), content_md : Opt(contents), is_active : Opt(actives)]

\* The request body of POST /api/kb-documents.
CreateBodies(workspaces, keys, titles, contents, actives) ==
    [workspace_id : workspaces, key : keys, title : titles,
     content_md : contents, is_active : actives]

\* The body b of POST /api/kb-documents with two fields the handler does not
\* ask for: a version and a history.
Unasked(b, version, content_md) ==
    [workspace_id |-> b.workspace_id, key |-> b.key, title |-> b.title,
     content_md |-> b.content_md, is_active |-> b.is_active,
     version |-> <<version>>,
     previous_versions |->
        <<<<[version |-> version - 1, content_md |-> content_md,
             updated_at |-> 0]>>>>]

\* The "version" field of a rollback request body: a number or something else.
VersionInputs(maxV) ==
    {[kind |-> "number", n |-> v] : v \in 0 .. maxV}
        \cup {[kind |-> "string", n |-> 0]}

NoBody == [title |-> <<>>, content_md |-> <<>>, is_active |-> <<>>]
IdleReq ==
    [pc |-> "idle", id |-> 0, version |-> 0, target |-> <<>>,
     body |-> NoBody, seen |-> <<>>]

\* What last holds: the handler, the id in its URL (0: none), the HTTP status
\* of its response (0: none yet), the error it reports, whether the request
\* changed the content_md of a row, and the rows a GET answers with.
Response(op, id, status, err, changed) ==
    [op |-> op, id |-> id, status |-> status, err |-> err, changed |-> changed,
     data |-> <<>>]

NoResponse == Response("none", 0, 0, "", FALSE)

NewCnt == [noop |-> 0, rbnoop |-> 0]

\* What memo holds for a row, where it is kept: the handler of the last
\* UPDATE of the row that succeeded, the id, its argument (the body of a
\* PATCH with what was stored when the request arrived, the version of a
\* rollback), whether it changed content_md, and whether it repeated the
\* UPDATE before it; NoMemo when there is none. For a row that a DELETE
\* removed: the row's scope key and the version it had.
Memo(op, id, arg, changed) ==
    [op |-> op, id |-> id, arg |-> arg, changed |-> changed, retry |-> FALSE]

NoMemo == Memo("none", 0, <<>>, FALSE)

----------------------------------------------------------------------------
(* The database: table kb_documents and its triggers.                      *)

\* The row INSERT stores: DEFAULTs for version, previous_versions and
\* updated_at (created_at, which nothing reads or writes later, is left out).
kb_documents(id, workspace_id, key, title, content_md, is_active, t) ==
    [id |-> id, workspace_id |-> workspace_id, key |-> key, title |-> title,
     content_md |-> content_md, version |-> 1, is_active |-> is_active,
     previous_versions |-> <<>>, updated_at |-> t]

\* The table without its UNIQUE constraint.
UniqueViolation_None(workspace_id, key) == {}

\* UNIQUE (workspace_id, key): the rows an INSERT of that pair collides with.
UniqueViolation(workspace_id, key) ==
    {i \in DOMAIN table :
        table[i].workspace_id = workspace_id /\ table[i].key = key}

\* The trigger refreshing updated_at only when content_md changes.
update_updated_at_column_OnContent(old, new, t) ==
    IF old.content_md # new.content_md THEN [new EXCEPT !.updated_at = t]
    ELSE new

\* BEFORE UPDATE trigger update_kb_documents_updated_at.
update_updated_at_column(old, new, t) == [new EXCEPT !.updated_at = t]

\* jsonb_build_object('version', ..., 'content_md', ..., 'updated_at', ...)
Snapshot(old) ==
    [version |-> old.version, content_md |-> old.content_md,
     updated_at |-> old.updated_at]

\* The truncation keeping the ten oldest elements.
KeepLast10_Oldest(pv) ==
    IF Len(pv) > HistoryLimit
    THEN SubSeq(pv, Len(pv) - HistoryLimit + 1, Len(pv)) ELSE pv

\* No truncation.
KeepLast10_All(pv) == pv

\* SELECT jsonb_agg(elem) FROM (SELECT elem FROM jsonb_array_elements(pv)
\* LIMIT 10): the first ten elements, in array order.
KeepLast10(pv) ==
    IF Len(pv) > HistoryLimit THEN SubSeq(pv, 1, HistoryLimit) ELSE pv

\* The trigger with the snapshot stamped with the refreshed updated_at.
version_kb_document_NewStamp(old, new) ==
    IF old.content_md # new.content_md
    THEN [new EXCEPT
            !.previous_versions =
                KeepLast10(<<[Snapshot(old) EXCEPT !.updated_at = new.updated_at]>>
                           \o old.previous_versions),
            !.version = old.version + 1]
    ELSE new

\* The trigger without its IS DISTINCT FROM test.
version_kb_document_Always(old, new) ==
    [new EXCEPT
        !.previous_versions =
            KeepLast10(<<Snapshot(old)>> \o old.previous_versions),
        !.version = old.version + 1]

\* The trigger without the "|| old.previous_versions".
version_kb_document_Replace(old, new) ==
    IF old.content_md # new.content_md
    THEN [new EXCEPT
            !.previous_versions = <<Snapshot(old)>>,
            !.version = old.version + 1]
    ELSE new

\* The trigger numbering the snapshot with the incremented version.
version_kb_document_NewNumber(old, new) ==
    IF old.content_md # new.content_md
    THEN [new EXCEPT
            !.previous_versions =
                KeepLast10(<<[Snapshot(old) EXCEPT !.version = old.version + 1]>>
                           \o old.previous_versions),
            !.version = old.version + 1]
    ELSE new

\* BEFORE UPDATE trigger version_kb_document_trigger.
version_kb_document(old, new) ==
    IF old.content_md # new.content_md
    THEN [new EXCEPT
            !.previous_versions =
                KeepLast10(<<Snapshot(old)>> \o old.previous_versions),
            !.version = old.version + 1]
    ELSE new

\* The SET clause of UPDATE kb_documents SET ... applied to the stored row.
SetColumns(old, data) ==
    [old EXCEPT
        !.title = IF data.title = <<>> THEN @ ELSE data.title[1],
        !.content_md = IF data.content_md = <<>> THEN @ ELSE data.content_md[1],
        !.is_active = IF data.is_active = <<>> THEN @ ELSE data.is_active[1]]

\* UPDATE kb_documents SET data WHERE id = old.id at time t: the row it
\* stores. BEFORE UPDATE triggers fire in the order of their names:
\* update_kb_documents_updated_at, then version_kb_document_trigger.
SqlUpdate(old, data, t) ==
    version_kb_document(old,
        update_updated_at_column(old, SetColumns(old, data), t))

----------------------------------------------------------------------------
(* History variables: what a write did, seen from outside.                 *)

\* The prior-state log of a row after a write took it from pre to post.
LogAfter(l, pre, post) ==
    IF post.content_md # pre.content_md THEN <<Snapshot(pre)>> \o l ELSE l

\* The counters of a row after a successful UPDATE sent by op took it from
\* pre to post: noop counts the UPDATEs that left content_md as it was,
\* rbnoop those of them that a rollback sent.
CntAfter(c, op, pre, post) ==
    IF post.content_md # pre.content_md THEN c
    ELSE [noop |-> c.noop + 1,
          rbnoop |-> c.rbnoop + (IF op = "rollback" THEN 1 ELSE 0)]

\* Whether the exploration still follows an UPDATE of row id with data.
Room(id, data, maxV, maxNoop) ==
    id \in DOMAIN table =>
        IF data.content_md # <<>> /\ data.content_md[1] # table[id].content_md
        THEN table[id].version < maxV
        ELSE cnt[id].noop < maxNoop

----------------------------------------------------------------------------
(* The HTTP handlers.                                                      *)

\* find with >= for ===.
Find_AtLeast(pv, n) ==
    LET hits == {i \in 1 .. Len(pv) : pv[i].version >= n}
    IN IF hits = {} THEN <<>>
       ELSE <<pv[CHOOSE i \in hits : \A j \in hits : i <= j]>>

\* find falling back to the newest snapshot.
Find_OrNewest(pv, n) ==
    LET hits == {i \in 1 .. Len(pv) : pv[i].version = n}
    IN IF pv = <<>> THEN <<>>
       ELSE IF hits = {} THEN <<pv[1]>>
       ELSE <<pv[CHOOSE i \in hits : \A j \in hits : i <= j]>>

\* Array.prototype.find: the first element whose version is n, if any.
Find(pv, n) ==
    LET hits == {i \in 1 .. Len(pv) : pv[i].version = n}
    IN IF hits = {} THEN <<>>
       ELSE <<pv[CHOOSE i \in hits : \A j \in hits : i <= j]>>

\* The create that looks for the scope key before it checks the fields.
CreateOutcome_LookupFirst(b) ==
    IF b.workspace_id # <<>> /\ b.key # <<>>
       /\ UniqueViolation(b.workspace_id[1], b.key[1]) # {}
    THEN "conflict"
    ELSE IF b.workspace_id = <<>> \/ b.key = <<>> \/ b.title = <<>>
    THEN "validation"
    ELSE "inserted"

\* How POST /api/kb-documents ends: the 400 of the field check, the 400 of
\* error code 23505, or the insert.
CreateOutcome(b) ==
    IF b.workspace_id = <<>> \/ b.key = <<>> \/ b.title = <<>>
    THEN "validation"
    ELSE IF UniqueViolation(b.workspace_id[1], b.key[1]) # {}
    THEN "conflict"
    ELSE "inserted"

\* The insert of the whole body: insert(body).
InsertedRow_Spread(b, id, t) ==
    LET row == kb_documents(id, b.workspace_id[1], b.key[1], b.title[1],
                            IF b.content_md = <<>> THEN "" ELSE b.content_md[1],
                            IF b.is_active = <<>> THEN TRUE ELSE b.is_active[1],
                            t)
    IN IF "version" \in DOMAIN b
       THEN [row EXCEPT !.version = b.version[1],
                        !.previous_versions = b.previous_versions[1]]
       ELSE row

\* const { workspace_id, key, title, content_md, is_active = true } = body;
\* insert({ workspace_id, key, title, content_md: content_md || '', is_active })
InsertedRow(b, id, t) ==
    kb_documents(id, b.workspace_id[1], b.key[1], b.title[1],
                 IF b.content_md = <<>> THEN "" ELSE b.content_md[1],
                 IF b.is_active = <<>> THEN TRUE ELSE b.is_active[1], t)

\* POST /api/kb-documents
Create(b) ==
    LET outcome == CreateOutcome(b)
        ok == outcome = "inserted"
    IN /\ table' = IF ok
                   THEN [i \in DOMAIN table \cup {nextId} |->
                            IF i = nextId THEN InsertedRow(b, nextId, now + 1)
                            ELSE table[i]]
                   ELSE table
       /\ nextId' = IF ok THEN nextId + 1 ELSE nextId
       /\ now' = IF ok THEN now + 1 ELSE now
       /\ log' = IF ok
                 THEN [i \in DOMAIN log \cup {nextId} |->
                          IF i = nextId THEN <<>> ELSE log[i]]
                 ELSE log
       /\ cnt' = IF ok
                 THEN [i \in DOMAIN cnt \cup {nextId} |->
                          IF i = nextId THEN NewCnt ELSE cnt[i]]
                 ELSE cnt
       /\ last' = Response("create", IF ok THEN nextId ELSE 0,
                            IF ok THEN 200 ELSE 400,
                            IF ok THEN "" ELSE outcome, FALSE)
       /\ UNCHANGED req

\* if (x !== undefined) updateData.x = x, for title, content_md, is_active.
PatchUpdateData(body) ==
    [title |-> body.title, content_md |-> body.content_md,
     is_active |-> body.is_active]

\* PATCH /api/kb-documents/[id], from its UPDATE to its response. An UPDATE
\* that sets no column (an empty body) either touches the row or returns
\* none, as the REST layer decides: applied says which.
PatchWrite(id, body, applied) ==
    LET data == PatchUpdateData(body)
        hit == id \in DOMAIN table /\ applied
        post == SqlUpdate(table[id], data, now + 1)
    IN /\ table' = IF hit THEN [table EXCEPT ![id] = post] ELSE table
       /\ now' = IF hit THEN now + 1 ELSE now
       /\ log' = IF hit
                 THEN [log EXCEPT ![id] = LogAfter(@, table[id], post)]
                 ELSE log
       /\ cnt' = IF hit
                 THEN [cnt EXCEPT ![id] = CntAfter(@, "update", table[id], post)]
                 ELSE cnt
       /\ last' = Response("update", id, IF hit THEN 200 ELSE 404,
                            IF hit THEN "" ELSE "PGRST116",
                            hit /\ post.content_md # table[id].content_md)
       /\ UNCHANGED nextId

\* PATCH /api/kb-documents/[id], handled with no other request in between.
Patch(id, body, applied) ==
    PatchWrite(id, body, applied) /\ UNCHANGED req

\* PATCH /api/kb-documents/[id], up to its UPDATE: the handler holds the id
\* and the body and has read nothing. seen, which the handler does not
\* have, is the (version, content_md) stored at this moment.
PatchReceive(c, id, body) ==
    /\ req[c].pc = "idle"
    /\ req' = [req EXCEPT ![c] =
                  [IdleReq EXCEPT
                      !.pc = "patch", !.id = id, !.body = body,
                      !.seen = IF id \in DOMAIN table
                               THEN <<table[id].version, table[id].content_md>>
                               ELSE <<>>]]
    /\ UNCHANGED <<table, nextId, now, last, log, cnt>>

\* PATCH numbering the new version from the version stored when the request
\* arrived, in place of the trigger's OLD.version.
PatchSend_Stale(c, applied) ==
    LET id == req[c].id
        hit == id \in DOMAIN table /\ applied
        fresh == SqlUpdate(table[id], PatchUpdateData(req[c].body), now + 1)
        post == IF req[c].seen # <<>> /\ fresh.content_md # table[id].content_md
                THEN [fresh EXCEPT !.version = req[c].seen[1] + 1]
                ELSE fresh
    IN /\ req[c].pc = "patch"
       /\ req' = [req EXCEPT ![c] = IdleReq]
       /\ table' = IF hit THEN [table EXCEPT ![id] = post] ELSE table
       /\ now' = IF hit THEN now + 1 ELSE now
       /\ log' = IF hit
                 THEN [log EXCEPT ![id] = LogAfter(@, table[id], post)]
                 ELSE log
       /\ cnt' = IF hit
                 THEN [cnt EXCEPT ![id] = CntAfter(@, "update", table[id], post)]
                 ELSE cnt
       /\ last' = Response("update", id, IF hit THEN 200 ELSE 404,
                            IF hit THEN "" ELSE "PGRST116",
                            hit /\ post.content_md # table[id].content_md)
       /\ UNCHANGED nextId

\* PATCH /api/kb-documents/[id] of a request under way: its UPDATE and its
\* response.
PatchSend(c, applied) ==
    /\ req[c].pc = "patch"
    /\ PatchWrite(req[c].id, req[c].body, applied)
    /\ req' = [req EXCEPT ![c] = IdleReq]

\* GET with maybeSingle() for single(): no row is no error.
Get_MaybeSingle(id) ==
    /\ last' = IF id \in DOMAIN table
               THEN [Response("get", id, 200, "", FALSE)
                        EXCEPT !.data = <<table[id]>>]
               ELSE Response("get", id, 200, "", FALSE)
    /\ UNCHANGED <<table, nextId, now, req, log, cnt>>

\* GET /api/kb-documents/[id]
Get(id) ==
    /\ last' = IF id \in DOMAIN table
               THEN [Response("get", id, 200, "", FALSE)
                        EXCEPT !.data = <<table[id]>>]
               ELSE Response("get", id, 404, "PGRST116", FALSE)
    /\ UNCHANGED <<table, nextId, now, req, log, cnt>>

\* CREATE TYPE kb_document_key AS ENUM (...): the keys, in the order ORDER
\* BY key sorts them.
kb_document_key ==
    <<"tone_of_voice", "brand_guidelines", "linkedin_algorithm",
      "x_algorithm", "quality_rubric">>

KeyOrder(key) ==
    CHOOSE k \in 1 .. Len(kb_document_key) : kb_document_key[k] = key

\* select('*').eq('workspace_id', workspaceId).order('key') on table t: the
\* ids of the rows, in the order of their keys.
ListRows(t, workspaceId) ==
    LET S == {i \in DOMAIN t : t[i].workspace_id = workspaceId}
    IN CHOOSE s \in [1 .. Cardinality(S) -> S] :
          /\ \A i, j \in 1 .. Cardinality(S) : s[i] = s[j] => i = j
          /\ \A i, j \in 1 .. Cardinality(S) :
                i < j => KeyOrder(t[s[i]].key) <= KeyOrder(t[s[j]].key)

\* GET /api/kb-documents?workspace_id=...
List(workspaceId) ==
    /\ last' = IF workspaceId = <<>>
               THEN Response("list", 0, 400, "validation", FALSE)
               ELSE [Response("list", 0, 200, "", FALSE)
                        EXCEPT !.data = ListRows(table, workspaceId[1])]
    /\ UNCHANGED <<table, nextId, now, req, log, cnt>>

\* DELETE as a tombstone: the row stays, switched off.
Delete_Soft(id) ==
    /\ table' = IF id \in DOMAIN table
                THEN [table EXCEPT ![id].is_active = FALSE] ELSE table
    /\ last' = Response("delete", id, 200, "", FALSE)
    /\ UNCHANGED <<nextId, now, req, log, cnt>>

\* DELETE matching the workspace of the row in place of its id.
Delete_Workspace(id) ==
    LET gone == {i \in DOMAIN table :
                    id \in DOMAIN table
                    /\ table[i].workspace_id = table[id].workspace_id}
    IN /\ table' = [i \in DOMAIN table \ gone |-> table[i]]
       /\ log' = [i \in DOMAIN log \ gone |-> log[i]]
       /\ cnt' = [i \in DOMAIN cnt \ gone |-> cnt[i]]
       /\ last' = Response("delete", id, 200, "", FALSE)
       /\ UNCHANGED <<nextId, now, req>>

\* DELETE /api/kb-documents/[id]
Delete(id) ==
    /\ table' = [i \in DOMAIN table \ {id} |-> table[i]]
    /\ log' = [i \in DOMAIN log \ {id} |-> log[i]]
    /\ cnt' = [i \in DOMAIN cnt \ {id} |-> cnt[i]]
    /\ last' = Response("delete", id, 200, "", FALSE)
    /\ UNCHANGED <<nextId, now, req>>

\* POST /api/kb-documents/[id]/rollback, up to the lookup of the version:
\* the type check, the SELECT of the row, and find on previous_versions.
RollbackFetch(c, id, ver) ==
    LET found == IF ver.kind = "number" /\ id \in DOMAIN table
                 THEN Find(table[id].previous_versions, ver.n) ELSE <<>>
        status == IF ver.kind # "number" THEN 400
                  ELSE IF id \notin DOMAIN table THEN 404
                  ELSE IF found = <<>> THEN 404
                  ELSE 0
        err == IF ver.kind # "number" THEN "validation"
               ELSE IF id \notin DOMAIN table THEN "Document not found"
               ELSE IF found = <<>> THEN "Version not found"
               ELSE ""
    IN /\ req[c].pc = "idle"
       /\ req' = IF status = 0
                 THEN [req EXCEPT ![c] = [IdleReq EXCEPT
                                             !.pc = "update", !.id = id,
                                             !.version = ver.n,
                                             !.target = found]]
                 ELSE req
       /\ last' = Response("rollback", id, status, err, FALSE)
       /\ UNCHANGED <<table, nextId, now, log, cnt>>

\* The rollback switching the document back on as well.
RollbackUpdateData_Reactivate(target) ==
    [title |-> <<>>, content_md |-> <<target.content_md>>,
     is_active |-> <<TRUE>>]

\* update({ content_md: targetVersion.content_md })
RollbackUpdateData(target) ==
    [title |-> <<>>, content_md |-> <<target.content_md>>, is_active |-> <<>>]

\* POST /api/kb-documents/[id]/rollback, from the UPDATE to the response.
RollbackUpdate(c) ==
    LET id == req[c].id
        data == RollbackUpdateData(req[c].target[1])
        hit == id \in DOMAIN table
        post == SqlUpdate(table[id], data, now + 1)
    IN /\ req[c].pc = "update"
       /\ req' = [req EXCEPT ![c] = IdleReq]
       /\ table' = IF hit THEN [table EXCEPT ![id] = post] ELSE table
       /\ now' = IF hit THEN now + 1 ELSE now
       /\ log' = IF hit
                 THEN [log EXCEPT ![id] = LogAfter(@, table[id], post)]
                 ELSE log
       /\ cnt' = IF hit
                 THEN [cnt EXCEPT ![id] = CntAfter(@, "rollback", table[id], post)]
                 ELSE cnt
       /\ last' = Response("rollback", id, IF hit THEN 200 ELSE 500,
                            IF hit THEN "" ELSE "PGRST116",
                            hit /\ post.content_md # table[id].content_md)
       /\ UNCHANGED nextId

----------------------------------------------------------------------------
(* The knowledge-base page (dashboard/kb) and its editor.                  *)

\* The browser sessions that have the page open.
Sessions == {"s1", "s2"}

\* The workspace of the signed-in user: currentWorkspace.id.
currentWorkspace == "w1"

\* The page of a session as it mounts: its useState values (documents,
\* loading, selectedDoc, isCreating: <<>> is null) and the local state of the
\* editor it renders (<<>>: not mounted).
NoPage ==
    [documents |-> <<>>, loading |-> TRUE, selectedDoc |-> <<>>,
     isCreating |-> FALSE, editor |-> <<>>]

----------------------------------------------------------------------------
----------------------------------------------------------------------------
(* The daily-generate cron endpoint: values.                               *)

\* The GET requests to /api/cron/daily-generate that can be under way at once.
Invocations == {"i1", "i2"}

\* for (const platform of ['linkedin', 'x'])
Platforms == <<"linkedin", "x">>

\* An invocation that handles no request: where it is (pc), the date it
\* took as today, its place in the loop over the pairs, its results; and,
\* history variables, the Authorization header of the request it handled
\* last (<<>>: none), the status it answered with (0: none yet), whether it
\* read table workspaces and whether it called the generation endpoint.
IdleInv ==
    [pc |-> "idle", today |-> 0, pos |-> 0, results |-> <<>>,
     header |-> <<>>, status |-> 0, read |-> FALSE, called |-> FALSE]

\* The endpoint and its surroundings: process.env.CRON_SECRET (<<>>: unset),
\* the UTC date, tables workspaces and generation_runs (the idempotency keys
\* of its rows), the invocations, and, a history variable, the generation
\* calls made: the key of each and whether a run with that key was stored
\* when it was made.
NoCron ==
    [secret |-> <<>>, day |-> 1, workspaces |-> {}, generation_runs |-> {},
     inv |-> [i \in Invocations |-> IdleInv], calls |-> {}]

----------------------------------------------------------------------------
(* Publishing: values.                                                     *)

\* The PATCH requests to /api/publish/[id]/metrics that can be under way at
\* once.
Patchers == {"p1", "p2"}

\* const { impressions, likes, comments, reposts, clicks } = body
MetricFields == {"impressions", "likes", "comments", "reposts", "clicks"}

\* A metrics request that is not under way.
IdlePatcher == [pc |-> "idle", id |-> 0, body |-> <<>>, existing |-> <<>>]

\* What pub.res holds of the last response: the handler, the id or draft_id
\* of the request (0: none), the HTTP status (0: none yet), and a bit that
\* every response flips.
PubResponse(op, id, status, tick) ==
    [op |-> op, id |-> id, status |-> status, tick |-> tick]

\* Tables drafts, sources (id -> status) and published_posts (id -> row),
\* the next id of a published post, the metrics requests under way, and, a
\* history variable, the last response. source_ids <<>> is null or empty.
NoPub ==
    [drafts |->
        [d \in {1, 2} |->
            [workspace_id |-> "w1", platform |-> "linkedin",
             source_ids |-> IF d = 1 THEN <<"s1", "s2">> ELSE <<>>]],
     sources |-> [x \in {"s1", "s2", "s3"} |-> "new"],
     published_posts |-> <<>>, nextPost |-> 1,
     patch |-> [c \in Patchers |-> IdlePatcher],
     res |-> PubResponse("none", 0, 0, FALSE)]

----------------------------------------------------------------------------
(* The browser extension: values.                                          *)

\* A session as the extension stores it; <<>> is a field left out.
Session(access_token, refresh_token, expires_at) ==
    [access_token |-> access_token, refresh_token |-> refresh_token,
     expires_at |-> expires_at]

\* What ext.out holds: the entry point, the session in storage when it
\* began (<<>>: none), the time it read, the session getValidSession
\* returned (<<>>: null), whether it refreshed, the session in storage when
\* it ended, and whether a quick-add request was sent.
ExtOutcome(op, stored, at, returned, refreshed, kept, quickAdd) ==
    [op |-> op, stored |-> stored, at |-> at, returned |-> returned,
     refreshed |-> refreshed, kept |-> kept, quickAdd |-> quickAdd]

\* chrome.storage.local's session (<<>>: none), Date.now() in seconds, and,
\* a history variable, what the last entry point did.
NoExt ==
    [session |-> <<>>, clock |-> 1000,
     out |-> ExtOutcome("none", <<>>, 0, <<>>, FALSE, <<>>, FALSE)]

----------------------------------------------------------------------------
\* The knowledge-base part of the state after deployment.
InitKB ==
    /\ table = <<>>
    /\ nextId = 1
    /\ now = 0
    /\ req = [c \in Clients |-> IdleReq]
    /\ last = NoResponse
    /\ log = <<>>
    /\ cnt = <<>>
    /\ memo = <<>>
    /\ page = [s \in Sessions |-> NoPage]

Init ==
    /\ InitKB
    /\ cron = NoCron
    /\ pub = NoPub
    /\ ext = NoExt

----------------------------------------------------------------------------
(* The requests explored: K names the inputs and the bounds.               *)

\* One more than the highest version stored: rollback targets beyond it
\* all fail alike.
VersionCeiling ==
    LET vs == {table[i].version : i \in DOMAIN table}
    IN IF vs = {} THEN 1 ELSE 1 + (CHOOSE v \in vs : \A w \in vs : w <= v)

\* Where K.sequential, a request starts only when no other is under way.
Free(K) == K.sequential => \A c \in Clients : req[c].pc = "idle"

Step(K) ==
    \/ \E b \in K.creates :
          /\ Free(K)
          /\ CreateOutcome(b) = "inserted" => nextId <= K.ids
          /\ Create(b)
          /\ UNCHANGED <<memo, page, cron, pub, ext>>
    \/ \E id \in 1 .. K.ids, body \in K.patches :
          \E applied \in IF body = NoBody THEN BOOLEAN ELSE {TRUE} :
             /\ Free(K)
             /\ Room(id, PatchUpdateData(body), K.maxV, K.maxNoop)
             /\ Patch(id, body, applied)
             /\ UNCHANGED <<memo, page, cron, pub, ext>>
    \/ \E id \in 1 .. K.ids :
          /\ Free(K)
          /\ Delete(id)
          /\ UNCHANGED <<memo, page, cron, pub, ext>>
    \/ \E c \in K.clients, id \in 1 .. K.ids,
          ver \in VersionInputs(VersionCeiling) :
          /\ Free(K)
          /\ RollbackFetch(c, id, ver)
          /\ UNCHANGED <<memo, page, cron, pub, ext>>
    \/ \E c \in K.clients :
          /\ req[c].pc = "update"
          /\ Room(req[c].id, RollbackUpdateData(req[c].target[1]),
                  K.maxV, K.maxNoop)
          /\ RollbackUpdate(c)
          /\ UNCHANGED <<memo, page, cron, pub, ext>>

\* Several documents, short histories, every update changing content, one
\* request at a time.
Wide ==
    [ids |-> MaxIds, maxV |-> MaxVersion, maxNoop |-> 0,
     sequential |-> TRUE, clients |-> {"c1"},
     creates |->
        CreateBodies({<<"w1">>}, {<<"tone_of_voice">>, <<"brand_guidelines">>},
                     {<<"T1">>}, {<<"A">>}, {<<>>})
        \cup CreateBodies({<<"w1">>}, {<<"tone_of_voice">>}, {<<>>},
                          {<<"A">>}, {<<>>}),
     patches |-> Bodies({}, {"A", "B"}, {})]

\* One document, histories of a few versions, every kind of input, requests
\* interleaved.
Doc ==
    [ids |-> 1, maxV |-> MaxVersionDoc, maxNoop |-> MaxNoop,
     sequential |-> FALSE, clients |-> {"c1"},
     creates |->
        CreateBodies({<<>>, <<"w1">>}, {<<>>, <<"tone_of_voice">>},
                     {<<>>, <<"T1">>}, {<<"A">>}, {<<>>, <<TRUE>>}),
     patches |-> Bodies({"T2"}, {"A", "B", "C"}, {FALSE})]

\* One document, a history longer than the limit, one request at a time.
Deep ==
    [ids |-> 1, maxV |-> MaxVersionDeep, maxNoop |-> MaxNoop,
     sequential |-> TRUE, clients |-> {"c1"},
     creates |->
        LET bs == CreateBodies({<<"w1">>}, {<<"tone_of_voice">>}, {<<"T1">>},
                               {<<"A">>}, {<<>>, <<TRUE>>, <<FALSE>>})
        IN bs \cup {Unasked(b, 7, "Z") : b \in bs},
     patches |-> Bodies({}, {"A", "B"}, {}) \cup Bodies({"T1"}, {}, {})]

\* The request of handler op on row id with argument arg repeats the last
\* UPDATE of the row that succeeded: a PATCH with the body of a PATCH that
\* changed content_md, a rollback to the version of a rollback.
Retry(op, id, arg) ==
    /\ id \in DOMAIN memo
    /\ memo[id].op = op
    /\ IF op = "update"
       THEN memo[id].changed /\ memo[id].arg.body = arg.body
       ELSE memo[id].arg = arg

\* memo after a step that answered the request of handler op on row id with
\* argument arg.
MemoAfter(op, id, arg) ==
    IF last'.status = 200 /\ id \in DOMAIN memo
    THEN [memo EXCEPT ![id] =
            [Memo(op, id, arg, last'.changed) EXCEPT
                !.retry = Retry(op, id, arg)]]
    ELSE memo

\* The requests of Step(K) with every PATCH in two steps, so that requests of
\* several clients interleave, with the two GET handlers, and with memo kept.
StepRace(K) ==
    \/ \E b \in K.creates :
          /\ CreateOutcome(b) = "inserted" => nextId <= K.ids
          /\ Create(b)
          /\ UNCHANGED <<page, cron, pub, ext>>
          /\ memo' = IF CreateOutcome(b) = "inserted"
                     THEN [i \in DOMAIN memo \cup {nextId} |->
                              IF i = nextId THEN NoMemo ELSE memo[i]]
                     ELSE memo
    \/ \E c \in K.clients, id \in 1 .. K.ids, body \in K.patches :
          /\ PatchReceive(c, id, body)
          /\ UNCHANGED <<memo, page, cron, pub, ext>>
    \/ \E c \in K.clients :
          \E applied \in IF req[c].body = NoBody THEN BOOLEAN ELSE {TRUE} :
             /\ req[c].pc = "patch"
             /\ Room(req[c].id, PatchUpdateData(req[c].body),
                     K.maxV, K.maxNoop)
             /\ PatchSend(c, applied)
             /\ UNCHANGED <<page, cron, pub, ext>>
             /\ memo' = MemoAfter("update", req[c].id,
                                  [body |-> req[c].body, seen |-> req[c].seen])
    \/ \E id \in 1 .. K.ids :
          /\ Delete(id)
          /\ UNCHANGED <<page, cron, pub, ext>>
          /\ memo' = IF id \in DOMAIN table
                     THEN [memo EXCEPT ![id] =
                             Memo("delete", id,
                                  [workspace_id |-> table[id].workspace_id,
                                   key |-> table[id].key,
                                   version |-> table[id].version], FALSE)]
                     ELSE memo
    \/ \E c \in K.clients, id \in 1 .. K.ids,
          ver \in VersionInputs(VersionCeiling) :
          /\ RollbackFetch(c, id, ver)
          /\ UNCHANGED <<memo, page, cron, pub, ext>>
    \/ \E c \in K.clients :
          /\ req[c].pc = "update"
          /\ Room(req[c].id, RollbackUpdateData(req[c].target[1]),
                  K.maxV, K.maxNoop)
          /\ RollbackUpdate(c)
          /\ UNCHANGED <<page, cron, pub, ext>>
          /\ memo' = MemoAfter("rollback", req[c].id, req[c].version)
    \/ \E id \in 1 .. K.ids :
          /\ Get(id)
          /\ UNCHANGED <<memo, page, cron, pub, ext>>
    \/ \E workspaceId \in K.workspaces :
          /\ List(workspaceId)
          /\ UNCHANGED <<memo, page, cron, pub, ext>>

\* One document, the requests of two clients interleaved.
Race ==
    [ids |-> 1, maxV |-> MaxVersionRace, maxNoop |-> MaxNoopRace,
     sequential |-> FALSE, clients |-> {"c1", "c2"},
     creates |->
        CreateBodies({<<"w1">>}, {<<"tone_of_voice">>}, {<<"T1">>},
                     {<<"A">>}, {<<>>}),
     patches |-> Bodies({}, {"A", "B"}, {}),
     workspaces |-> {<<"w1">>}]

\* Two documents of one workspace, every update changing content, the
\* requests on one interleaved with those on the other.
Pair ==
    [ids |-> 2, maxV |-> MaxVersionPair, maxNoop |-> 0,
     sequential |-> FALSE, clients |-> {"c1"},
     creates |->
        CreateBodies({<<"w1">>}, {<<"tone_of_voice">>, <<"brand_guidelines">>},
                     {<<"T1">>}, {<<"A">>}, {<<>>}),
     patches |-> Bodies({}, {"A", "B"}, {}),
     workspaces |-> {<<>>, <<"w1">>}]

\* One document, a history longer than the limit, a rollback interleaved with
\* the other requests.
DeepRace == [Deep EXCEPT !.sequential = FALSE, !.maxV = MaxVersionDeepRace]

Next == Step(Wide)
NextDoc == Step(Doc)
NextDeep == Step(Deep)
NextRace == StepRace(Race)
NextPair == StepRace(Pair)
NextDeepRace == Step(DeepRace)

Spec == Init /\ [][Next]_vars
SpecDoc == Init /\ [][NextDoc]_vars
SpecDeep == Init /\ [][NextDeep]_vars
SpecRace == Init /\ [][NextRace]_vars
SpecPair == Init /\ [][NextPair]_vars
SpecDeepRace == Init /\ [][NextDeepRace]_vars

----------------------------------------------------------------------------
(* Properties.                                                             *)

AllPatches ==
    Wide.patches \cup Doc.patches \cup Deep.patches \cup Race.patches
        \cup Pair.patches
AllCreates ==
    Wide.creates \cup Doc.creates \cup Deep.creates \cup Race.creates
        \cup Pair.creates

\* body asks for a content_md other than the one row holds.
ChangesContent(body, row) ==
    body.content_md # <<>> /\ body.content_md[1] # row.content_md

\* The versions of the snapshots in pv.
Versions(pv) == {pv[k].version : k \in 1 .. Len(pv)}

\* C1: an update whose content differs from the stored content sets version
\* to the old version + 1, puts the snapshot {old version, old content, old
\* updated_at} first in the history, keeps the previous entries behind it in
\* their order, ten entries in all at most, and stores the new content.
C1_ContentChangeSnapshots ==
    [][\A id \in DOMAIN table, body \in AllPatches :
          (/\ last'.op = "update" /\ last'.id = id
           /\ ChangesContent(body, table[id])
           /\ Patch(id, body, TRUE))
          => LET old == table[id]
                 new == table'[id]
             IN /\ new.version = old.version + 1
                /\ new.content_md = body.content_md[1]
                /\ Len(new.previous_versions)
                     = Min(Len(old.previous_versions) + 1, 10)
                /\ new.previous_versions[1]
                     = [version |-> old.version, content_md |-> old.content_md,
                        updated_at |-> old.updated_at]
                /\ new.updated_at # old.updated_at
                /\ \A k \in 2 .. Len(new.previous_versions) :
                      new.previous_versions[k] = old.previous_versions[k - 1]
      ]_vars

\* C1 witness: a content-changing update pushed the eleventh snapshot.
C1_Witness ==
    /\ last.op = "update" /\ last.status = 200 /\ last.changed
    /\ last.id \in DOMAIN table
    /\ table[last.id].version = 12
    /\ Len(table[last.id].previous_versions) = 10

\* C2: an update that leaves content as it is (content omitted, or equal to
\* the stored content) leaves version, history and content unchanged, and
\* writes title and is_active when they are given.
C2_NoContentChangeNoVersion ==
    [][\A id \in DOMAIN table, body \in AllPatches :
          (/\ last'.op = "update" /\ last'.id = id /\ last'.status = 200
           /\ ~ChangesContent(body, table[id])
           /\ Patch(id, body, TRUE))
          => LET old == table[id]
                 new == table'[id]
             IN /\ new.version = old.version
                /\ new.previous_versions = old.previous_versions
                /\ new.content_md = old.content_md
                /\ new.title = IF body.title = <<>> THEN old.title
                               ELSE body.title[1]
                /\ new.is_active = IF body.is_active = <<>> THEN old.is_active
                                   ELSE body.is_active[1]
                /\ [new EXCEPT !.updated_at = 0, !.title = "", !.is_active = TRUE]
                     = [old EXCEPT !.updated_at = 0, !.title = "",
                                   !.is_active = TRUE]
      ]_vars

\* C2 witness: an update that changed title and is_active and not content,
\* on a document with a history.
C2_Witness ==
    /\ last.op = "update" /\ last.status = 200 /\ ~last.changed
    /\ last.id \in DOMAIN table
    /\ table[last.id].title = "T2"
    /\ table[last.id].is_active = FALSE
    /\ table[last.id].version = 3
    /\ Len(table[last.id].previous_versions) = 2

\* C3: no history ever has more than ten entries, and a push onto a history
\* of ten drops its last (oldest) entry and keeps the other nine in order.
C3_HistoryBounded ==
    /\ [](\A id \in DOMAIN table : Len(table[id].previous_versions) <= 10)
    /\ [][\A id \in DOMAIN table \cap DOMAIN table' :
             LET old == table[id].previous_versions
                 new == table'[id].previous_versions
             IN (Len(old) = 10 /\ last'.changed /\ last'.id = id)
                => /\ Len(new) = 10
                   /\ new[1].version = table[id].version
                   /\ \A k \in 1 .. 9 : new[k + 1] = old[k]
                   /\ old[10].version \notin Versions(new)
         ]_vars

\* C3 witness: a history of ten whose oldest entry is version 2: version 1
\* was dropped.
C3_Witness ==
    \E id \in DOMAIN table :
        /\ Len(table[id].previous_versions) = 10
        /\ table[id].previous_versions[10].version = 2
        /\ table[id].version = 12

\* C4: the history is the first min(10, k) entries of the newest-first log
\* of the k states that content changes replaced.
C4_HistoryIsRecentLog ==
    \A id \in DOMAIN table :
        table[id].previous_versions
            = SubSeq(log[id], 1, Min(10, Len(log[id])))

\* C4 witness: eleven prior states, the last of them replaced by a rollback.
C4_Witness ==
    /\ last.op = "rollback" /\ last.status = 200 /\ last.changed
    /\ last.id \in DOMAIN table
    /\ Len(log[last.id]) = 11

\* C5 as claimed: version is 1 + the number of successful content-changing
\* updates + the number of successful rollbacks.
C5_VersionCountsEveryRollback ==
    \A id \in DOMAIN table :
        table[id].version = 1 + Len(log[id]) + cnt[id].rbnoop

\* C5, amended: version is 1 + the number of successful updates and
\* rollbacks that changed the stored content; a successful rollback to a
\* snapshot whose content is the stored content is not counted.
C5_VersionCountsContentChanges ==
    \A id \in DOMAIN table : table[id].version = 1 + Len(log[id])

\* C5 witness: a document at version 3 after two content changes and one
\* successful rollback that changed nothing.
C5_Witness ==
    \E id \in DOMAIN table :
        /\ table[id].version = 3
        /\ Len(log[id]) = 2
        /\ cnt[id].rbnoop = 1

\* No two snapshots of a history carry the same version.
DistinctVersions ==
    \A id \in DOMAIN table :
        LET pv == table[id].previous_versions
        IN \A j, k \in 1 .. Len(pv) : pv[j].version = pv[k].version => j = k

\* The rollback request of client c wrote and was answered 200.
RolledBack(c) ==
    /\ req[c].pc = "update"
    /\ last'.op = "rollback" /\ last'.status = 200
    /\ RollbackUpdate(c)

\* The rollback request of client c for version n of row id found a snapshot
\* and goes on to its UPDATE.
Fetched(c, id, n) ==
    /\ last'.op = "rollback" /\ last'.status = 0
    /\ RollbackFetch(c, id, [kind |-> "number", n |-> n])

\* C6 as claimed: a successful rollback to the entry {N, X} leaves content X
\* and version = the version before it + 1, whatever the stored content.
C6_RollbackAlwaysAdvances ==
    [][\A c \in Clients :
          RolledBack(c)
          => /\ table'[req[c].id].content_md = req[c].target[1].content_md
             /\ table'[req[c].id].version = table[req[c].id].version + 1
      ]_vars

\* C6, amended: a successful rollback to the entry {N, X} leaves content X;
\* version is the version before its write + 1 when X differs from the
\* content stored then, and is unchanged when X is that content; it is
\* never N. The entry is the only one of the history with version N.
C6_RollbackFidelity ==
    /\ []DistinctVersions
    /\ [][\A c \in Clients, id \in DOMAIN table, n \in 0 .. VersionCeiling :
             Fetched(c, id, n)
             => /\ req'[c].id = id /\ req'[c].version = n
                /\ \A k \in 1 .. Len(table[id].previous_versions) :
                      table[id].previous_versions[k].version = n
                      => req'[c].target = <<table[id].previous_versions[k]>>
         ]_vars
    /\ [][\A c \in Clients :
             RolledBack(c)
             => LET old == table[req[c].id]
                    new == table'[req[c].id]
                    X == req[c].target[1].content_md
                IN /\ new.content_md = X
                   /\ new.version = IF X # old.content_md
                                    THEN old.version + 1 ELSE old.version
                   /\ new.version > req[c].version
         ]_vars

\* C6 witness: a rollback to version 1 took a document from version 3 to 4.
C6_Witness ==
    /\ last.op = "rollback" /\ last.status = 200 /\ last.changed
    /\ last.id \in DOMAIN table
    /\ table[last.id].version = 4
    /\ table[last.id].content_md = "A"
    /\ table[last.id].previous_versions[1].content_md = "C"

\* The pair (version, content) of a row or of a snapshot.
VC(r) == <<r.version, r.content_md>>

\* The snapshots of pv with a version strictly between lo and hi.
Between(pv, lo, hi) ==
    {pv[k] : k \in {j \in 1 .. Len(pv) : lo < pv[j].version /\ pv[j].version < hi}}

\* The snapshots in pv.
Entries(pv) == {pv[k] : k \in 1 .. Len(pv)}

C8_RollbackIsUpdate ==
    [][\A c \in Clients :
          (/\ RolledBack(c)
           /\ Find(table[req[c].id].previous_versions, req[c].version) # <<>>)
          => LET old == table[req[c].id]
                 snap == Find(old.previous_versions, req[c].version)[1]
                 body == [NoBody EXCEPT !.content_md = <<snap.content_md>>]
             IN table'[req[c].id]
                    = SqlUpdate(old, PatchUpdateData(body), now')
      ]_vars

\* C8 witness: a rollback on a document switched off and retitled.
C8_Witness ==
    /\ last.op = "rollback" /\ last.status = 200 /\ last.changed
    /\ last.id \in DOMAIN table
    /\ table[last.id].is_active = FALSE
    /\ table[last.id].title = "T2"

\* C9: a rollback to a version that no entry of the history of an existing
\* document carries (the current version included) is answered 404 and
\* writes nothing: the row, updated_at included, stays as it is.
C9_UnknownVersionNotFound ==
    [][\A c \in Clients, id \in DOMAIN table, n \in 0 .. VersionCeiling :
          (/\ last'.op = "rollback" /\ last'.id = id
           /\ n \notin Versions(table[id].previous_versions)
           /\ RollbackFetch(c, id, [kind |-> "number", n |-> n]))
          => /\ last'.status = 404
             /\ table' = table
             /\ req' = req
      ]_vars

\* C9 witness: a rollback answered "Version not found" on a document that
\* has a history.
C9_Witness ==
    /\ last.op = "rollback" /\ last.status = 404
    /\ last.err = "Version not found"
    /\ last.id \in DOMAIN table
    /\ table[last.id].previous_versions # <<>>

\* The body has the fields the create handler requires.
WellFormed(b) == b.workspace_id # <<>> /\ b.key # <<>> /\ b.title # <<>>

\* The rows of scope key (workspace_id, key).
InScope(t, workspace_id, key) ==
    {i \in DOMAIN t : t[i].workspace_id = workspace_id /\ t[i].key = key}

\* C10: no two documents share a scope key; a create for a scope key that
\* has a document is refused as a conflict and changes nothing; a create for
\* a scope key that has none succeeds: of two creates for one scope key, in
\* either order, exactly one succeeds.
C10_OnePerScopeKey ==
    /\ [](\A i, j \in DOMAIN table :
            (table[i].workspace_id = table[j].workspace_id
             /\ table[i].key = table[j].key) => i = j)
    /\ [][\A b \in AllCreates :
             (last'.op = "create" /\ WellFormed(b) /\ Create(b))
             => IF InScope(table, b.workspace_id[1], b.key[1]) # {}
                THEN /\ last'.status = 400 /\ last'.err = "conflict"
                     /\ table' = table
                ELSE /\ last'.status = 200
                     /\ Cardinality(InScope(table', b.workspace_id[1],
                                            b.key[1])) = 1
                     /\ \A i \in DOMAIN table : table'[i] = table[i]
         ]_vars

\* C10 witness: a create refused as a conflict while two documents exist.
C10_Witness ==
    /\ last.op = "create" /\ last.status = 400 /\ last.err = "conflict"
    /\ Cardinality(DOMAIN table) = 2

\* C11: every successful create stores a new row with version 1, an empty
\* history and is_active TRUE unless the body gives is_active, which it then
\* takes; a version or a history in the body changes nothing of this.
C11_CreateDefaults ==
    [][\A b \in AllCreates :
          (last'.op = "create" /\ last'.status = 200 /\ Create(b))
          => LET row == table'[last'.id]
             IN /\ last'.id \notin DOMAIN table
                /\ row.version = 1
                /\ row.previous_versions = <<>>
                /\ row.is_active = IF b.is_active = <<>> THEN TRUE
                                   ELSE b.is_active[1]
                /\ log'[last'.id] = <<>>
      ]_vars

\* C11 witness: a create that gave is_active FALSE was answered 200 and the
\* row is at version 1 with no history.
C11_Witness ==
    /\ last.op = "create" /\ last.status = 200
    /\ table[last.id].is_active = FALSE
    /\ table[last.id].version = 1
    /\ table[last.id].previous_versions = <<>>

C13_HistoryBelowCurrent ==
    \A id \in DOMAIN table :
        \A k \in 1 .. Len(table[id].previous_versions) :
            table[id].previous_versions[k].version < table[id].version

\* C13 witness: a rollback on a full history from which version 1 is gone:
\* the head entry is one version below the document.
C13_Witness ==
    /\ last.op = "rollback" /\ last.status = 200 /\ last.changed
    /\ last.id \in DOMAIN table
    /\ Len(table[last.id].previous_versions) = 10
    /\ table[last.id].previous_versions[1].version + 1 = table[last.id].version
    /\ table[last.id].previous_versions[10].version > 1

\* C14: the UPDATE of a PATCH under way computes the row from the row stored
\* at its write; when it changes content it adds 1 to the version stored
\* then and puts that row's snapshot first. When exactly one content change
\* was written since the request arrived, the version ends at the version
\* stored at arrival + 2, and the history holds the (version, content)
\* stored at arrival and, first, the one the other write stored.
C14_NoLostUpdate ==
    [][\A c \in Clients :
          (/\ req[c].pc = "patch"
           /\ last'.op = "update" /\ last'.status = 200 /\ last'.changed
           /\ PatchSend(c, TRUE))
          => LET old == table[req[c].id]
                 new == table'[req[c].id]
                 seen == req[c].seen
             IN /\ new = SqlUpdate(old, PatchUpdateData(req[c].body), now')
                /\ new.version = old.version + 1
                /\ new.previous_versions[1] = Snapshot(old)
                /\ (seen # <<>> /\ old.version = seen[1] + 1)
                   => /\ new.version = seen[1] + 2
                      /\ new.previous_versions[1].version = seen[1] + 1
                      /\ \E k \in 1 .. Len(new.previous_versions) :
                            /\ new.previous_versions[k].version = seen[1]
                            /\ new.previous_versions[k].content_md = seen[2]
      ]_vars

\* C14 witness: a PATCH that arrived at version 1 wrote after another
\* content change and took the document from version 2 to 3; both prior
\* states are in the history.
C14_Witness ==
    \E id \in DOMAIN table :
        /\ memo[id].op = "update" /\ memo[id].changed
        /\ memo[id].arg.seen = <<1, "A">>
        /\ table[id].version = 3
        /\ Len(table[id].previous_versions) = 2
        /\ table[id].previous_versions[1].content_md = "B"

\* C15: a rollback to version N that is answered 200 has installed the
\* content of a snapshot that has version N in the history stored at the
\* moment of its UPDATE, whatever was written since its SELECT; a rollback
\* answered with an error has changed nothing.
C15_RollbackAtomic ==
    [][\A c \in Clients :
          (/\ req[c].pc = "update"
           /\ last'.op = "rollback"
           /\ RollbackUpdate(c))
          => IF last'.status = 200
             THEN LET pv == table[req[c].id].previous_versions
                  IN \E k \in 1 .. Len(pv) :
                        /\ pv[k].version = req[c].version
                        /\ pv[k].content_md = table'[req[c].id].content_md
             ELSE table' = table
      ]_vars

\* C15 witness: a rollback to version 1 was answered 200 and changed the
\* content although the history it wrote to began at version 2.
C15_Witness ==
    /\ last.op = "rollback" /\ last.status = 200 /\ last.changed
    /\ last.id \in DOMAIN table
    /\ table[last.id].version = 13
    /\ table[last.id].content_md = "A"
    /\ Len(table[last.id].previous_versions) = 10
    /\ table[last.id].previous_versions[10].version = 3

\* Every row but row a is stored after the step as it was before it.
Others(a) ==
    \A i \in DOMAIN table \ {a} : i \in DOMAIN table' /\ table'[i] = table[i]

C17_ValidationFirst ==
    [][/\ \A b \in AllCreates :
             (last'.op = "create" /\ ~WellFormed(b) /\ Create(b))
             => /\ last'.status = 400 /\ last'.err = "validation"
                /\ UNCHANGED <<table, nextId, now, req, log>>
       /\ \A c \in Clients :
             (/\ last'.op = "rollback"
              /\ RollbackFetch(c, last'.id, [kind |-> "string", n |-> 0]))
             => /\ last'.status = 400 /\ last'.err = "validation"
                /\ UNCHANGED <<table, nextId, now, req, log>>
      ]_vars

\* C17 witness: a rollback with a version that is no number, for an id that
\* has no row, answered 400 and not 404, a document having been created and
\* deleted before.
C17_Witness ==
    /\ last.op = "rollback" /\ last.status = 400 /\ last.err = "validation"
    /\ last.id \notin DOMAIN table
    /\ nextId > 1

\* The UPDATE of the PATCH of client c repeats the PATCH that last wrote the
\* row and changed its content, and is answered 200.
RetriedUpdate(c) ==
    /\ req[c].pc = "patch"
    /\ Retry("update", req[c].id, [body |-> req[c].body])
    /\ last'.op = "update" /\ last'.status = 200
    /\ PatchSend(c, TRUE)

\* The UPDATE of the rollback of client c repeats the rollback that last
\* wrote the row, and is answered 200.
RetriedRollback(c) ==
    /\ req[c].pc = "update"
    /\ Retry("rollback", req[c].id, req[c].version)
    /\ last'.op = "rollback" /\ last'.status = 200
    /\ RollbackUpdate(c)

\* C18 as claimed, as a property of every retry: a successful update that
\* changed content, retried with the same body, and a successful rollback,
\* retried with the same version, no other write to the document in
\* between, advance version a second time.
C18_RetryAdvances ==
    [][\A c \in Clients :
          (RetriedUpdate(c) \/ RetriedRollback(c))
          => table'[req[c].id].version = table[req[c].id].version + 1
      ]_vars

\* C18, amended: no such retry advances version: it finds its content
\* stored, leaves content, version and history as they are, and refreshes
\* updated_at.
C18_RetryNeverAdvances ==
    [][\A c \in Clients :
          (RetriedUpdate(c) \/ RetriedRollback(c))
          => LET old == table[req[c].id]
                 new == table'[req[c].id]
             IN /\ new.version = old.version
                /\ new.previous_versions = old.previous_versions
                /\ new.content_md = old.content_md
                /\ new.updated_at > old.updated_at
                /\ ~last'.changed
      ]_vars

\* C18 witness: rollback(1) took the document from version 2 to 3 and,
\* retried, left it at version 3.
C18_Witness ==
    \E id \in DOMAIN table :
        /\ memo[id].retry /\ memo[id].op = "rollback" /\ memo[id].arg = 1
        /\ table[id].version = 3
        /\ Len(log[id]) = 2
        /\ cnt[id].rbnoop = 1

\* Row id was removed by a DELETE.
Gone(id) == id \in DOMAIN memo /\ memo[id].op = "delete"

\* C19: a DELETE is answered 200 and removes the whole row: the id has no
\* row from then on and is in no list; an update, a rollback and a get
\* of the id are answered 404 and change nothing; a create for the scope key
\* of the removed row, no other row having it, is answered 200 and stores a
\* row under a new id with version 1 and an empty history.
C19_HardDelete ==
    [][/\ (last'.op = "delete" /\ Delete(last'.id))
          => /\ last'.status = 200
             /\ last'.id \notin DOMAIN table'
             /\ \A i \in DOMAIN table' :
                   \A k \in 1 .. Len(ListRows(table', table'[i].workspace_id)) :
                      ListRows(table', table'[i].workspace_id)[k] # last'.id
       /\ \A id \in DOMAIN memo :
             Gone(id) => id \notin DOMAIN table /\ id \notin DOMAIN table'
       /\ (/\ last'.op = "list" /\ last'.status = 200
           /\ \E w \in Pair.workspaces : List(w))
          => /\ \A k \in 1 .. Len(last'.data) :
                   last'.data[k] \in DOMAIN table /\ ~Gone(last'.data[k])
             /\ \A i \in DOMAIN table :
                   List(<<table[i].workspace_id>>)
                   => \E k \in 1 .. Len(last'.data) : last'.data[k] = i
       /\ (/\ Gone(last'.id)
           /\ \/ /\ last'.op = "update"
                 /\ \E c \in Clients, applied \in BOOLEAN :
                       PatchSend(c, applied)
              \/ /\ last'.op = "rollback"
                 /\ \E c \in Clients, n \in 0 .. VersionCeiling :
                       RollbackFetch(c, last'.id, [kind |-> "number", n |-> n])
              \/ /\ last'.op = "get"
                 /\ Get(last'.id))
          => last'.status = 404 /\ table' = table
       /\ \A b \in AllCreates :
             (/\ last'.op = "create" /\ WellFormed(b) /\ Create(b)
              /\ InScope(table, b.workspace_id[1], b.key[1]) = {}
              /\ \E id \in DOMAIN memo :
                    /\ Gone(id)
                    /\ memo[id].arg.workspace_id = b.workspace_id[1]
                    /\ memo[id].arg.key = b.key[1])
             => /\ last'.status = 200
                /\ last'.id \notin DOMAIN memo
                /\ table'[last'.id].version = 1
                /\ table'[last'.id].previous_versions = <<>>
                /\ log'[last'.id] = <<>>
      ]_vars

\* C19 witness: a document deleted at version 3, and a create for its scope
\* key answered 200 with a new id, version 1 and no history.
C19_Witness ==
    /\ last.op = "create" /\ last.status = 200 /\ last.id = 2
    /\ DOMAIN table = {2}
    /\ Gone(1)
    /\ memo[1].arg.version = 3
    /\ memo[1].arg.key = table[2].key
    /\ memo[1].arg.workspace_id = table[2].workspace_id
    /\ table[2].version = 1
    /\ table[2].previous_versions = <<>>

\* C20: every PATCH answered 200, whether or not it changes content, stores
\* the time of its UPDATE in updated_at: later than the updated_at stored
\* before and than that of every entry of the history it leaves; the
\* snapshot a content change pushes carries the updated_at stored before.
C20_UpdatedAtRefreshed ==
    [][\A id \in DOMAIN table :
          (/\ last'.op = "update" /\ last'.id = id /\ last'.status = 200
           /\ \/ \E body \in AllPatches : Patch(id, body, TRUE)
              \/ \E c \in Clients : req[c].id = id /\ PatchSend(c, TRUE))
          => LET old == table[id]
                 new == table'[id]
             IN /\ now' > now
                /\ new.updated_at = now'
                /\ new.updated_at > old.updated_at
                /\ \A k \in 1 .. Len(new.previous_versions) :
                      new.previous_versions[k].updated_at < new.updated_at
                /\ last'.changed
                   => new.previous_versions[1].updated_at = old.updated_at
                /\ ~last'.changed
                   => new.previous_versions = old.previous_versions
      ]_vars

\* C20 witness: an update that left content alone refreshed updated_at: the
\* document, at version 2, is stamped with the time of that update, and its
\* snapshot with the time of the create.
C20_Witness ==
    /\ last.op = "update" /\ last.status = 200 /\ ~last.changed
    /\ last.id \in DOMAIN table
    /\ table[last.id].version = 2
    /\ table[last.id].previous_versions[1].updated_at = 1
    /\ table[last.id].updated_at = 3
    /\ now = 3

\* C21: the versions of a document's history run from version - 1 at the
\* head down, one by one, to max(1, version - 10) at the tail: they are
\* pairwise distinct and strictly decreasing, the history has
\* min(version - 1, 10) entries, and a lookup by version number matches one
\* entry at most.
C21_HistoryContiguous ==
    \A id \in DOMAIN table :
        LET pv == table[id].previous_versions
            v == table[id].version
        IN /\ Len(pv) = Min(v - 1, 10)
           /\ \A k \in 1 .. Len(pv) : pv[k].version = v - k
           /\ \A j, k \in 1 .. Len(pv) : j < k => pv[j].version > pv[k].version
           /\ Versions(pv) = (IF v - 10 > 1 THEN v - 10 ELSE 1) .. (v - 1)
           /\ \A n \in 0 .. v :
                 Cardinality({k \in 1 .. Len(pv) : pv[k].version = n}) <= 1
           /\ \A n \in Versions(pv) : Find(pv, n) # <<>> /\ Find(pv, n)[1].version = n

\* C21 witness: a document at version 12, taken there by a rollback, whose
\* ten entries are versions 11 down to 2.
C21_Witness ==
    \E id \in DOMAIN table :
        /\ last.op = "rollback" /\ last.status = 200 /\ last.id = id
        /\ table[id].version = 12
        /\ table[id].previous_versions[1].version = 11
        /\ table[id].previous_versions[10].version = 2

----------------------------------------------------------------------------
(* The knowledge-base page: what a session does to it.                     *)

\* A KBDocument as the page holds it: of the row a response carries, the
\* fields that the list, the editor's inputs and its Save read (version and
\* previous_versions, which only the history dialog reads, are left out).
KBDocument(row) ==
    [id |-> row.id, key |-> row.key, title |-> row.title,
     content_md |-> row.content_md, is_active |-> row.is_active]

\* document?.id, 0 for null.
DocId(document) == IF document = <<>> THEN 0 ELSE document[1].id

\* The document prop the page hands its editor: isCreating ? null : selectedDoc.
Document(p) == IF p.isCreating THEN <<>> ELSE p.selectedDoc

\* (selectedDoc || isCreating) && currentWorkspace: the editor is rendered.
Mounted(p) == p.selectedDoc # <<>> \/ p.isCreating

\* The editor's useState initial values for the document prop it is mounted
\* with. from, a history variable, names for each field the id of the
\* document prop under which the field got its value (0: none, create mode).
KBDocumentEditor(document) ==
    [key |-> IF document = <<>> THEN "" ELSE document[1].key,
     title |-> IF document = <<>> THEN "" ELSE document[1].title,
     content |-> IF document = <<>> THEN "" ELSE document[1].content_md,
     isActive |-> IF document = <<>> THEN TRUE ELSE document[1].is_active,
     from |-> [title |-> DocId(document), content |-> DocId(document),
               isActive |-> DocId(document)]]

\* The page p re-rendered with new values of selectedDoc and isCreating. The
\* editor element carries no key, so an editor that stays rendered keeps its
\* local state; useState reads its argument only when the editor mounts.
Render(p, selectedDoc, isCreating) ==
    LET q == [p EXCEPT !.selectedDoc = selectedDoc, !.isCreating = isCreating]
    IN [q EXCEPT !.editor =
            IF ~Mounted(q) THEN <<>>
            ELSE IF p.editor = <<>> THEN <<KBDocumentEditor(Document(q))>>
            ELSE p.editor]

\* fetchDocuments, which the page runs as it mounts: GET
\* /api/kb-documents?workspace_id=..., setDocuments, setLoading(false).
fetchDocuments(s) ==
    /\ page[s].loading
    /\ List(<<currentWorkspace>>)
    /\ page' = [page EXCEPT ![s].documents =
                   LET ids == ListRows(table, currentWorkspace)
                   IN [k \in DOMAIN ids |-> KBDocument(table[ids[k]])],
                            ![s].loading = FALSE]

\* onClick of the card of documents[k]: setSelectedDoc(doc), setIsCreating(false).
CardClick(s, k) ==
    /\ ~page[s].loading
    /\ k \in DOMAIN page[s].documents
    /\ page' = [page EXCEPT ![s] = Render(page[s], <<page[s].documents[k]>>, FALSE)]
    /\ UNCHANGED <<table, nextId, now, req, last, log, cnt>>

\* onClick of "Add Document": setIsCreating(true).
AddDocument(s) ==
    /\ ~page[s].isCreating
    /\ page' = [page EXCEPT ![s] = Render(page[s], page[s].selectedDoc, TRUE)]
    /\ UNCHANGED <<table, nextId, now, req, last, log, cnt>>

\* The page's handleClose: setSelectedDoc(null), setIsCreating(false).
handleClose(s) ==
    /\ Mounted(page[s])
    /\ page' = [page EXCEPT ![s] = Render(page[s], <<>>, FALSE)]
    /\ UNCHANGED <<table, nextId, now, req, last, log, cnt>>

\* The editor's inputs: setKey (the select is disabled unless isNew),
\* setTitle, setContent, setIsActive.
setKey(s, key) ==
    /\ page[s].editor # <<>> /\ page[s].isCreating
    /\ page[s].editor[1].key # key
    /\ page' = [page EXCEPT ![s].editor[1].key = key]
    /\ UNCHANGED <<table, nextId, now, req, last, log, cnt>>

setTitle(s, title) ==
    /\ page[s].editor # <<>>
    /\ page[s].editor[1].title # title
    /\ page' = [page EXCEPT ![s].editor[1].title = title,
                            ![s].editor[1].from.title = DocId(Document(page[s]))]
    /\ UNCHANGED <<table, nextId, now, req, last, log, cnt>>

setContent(s, content) ==
    /\ page[s].editor # <<>>
    /\ page[s].editor[1].content # content
    /\ page' = [page EXCEPT ![s].editor[1].content = content,
                            ![s].editor[1].from.content = DocId(Document(page[s]))]
    /\ UNCHANGED <<table, nextId, now, req, last, log, cnt>>

setIsActive(s, isActive) ==
    /\ page[s].editor # <<>>
    /\ page[s].editor[1].isActive # isActive
    /\ page' = [page EXCEPT ![s].editor[1].isActive = isActive,
                            ![s].editor[1].from.isActive = DocId(Document(page[s]))]
    /\ UNCHANGED <<table, nextId, now, req, last, log, cnt>>

\* The editor's hasChanges: Save is disabled without it.
hasChanges(p) ==
    LET e == p.editor[1]
        document == Document(p)
    IN IF p.isCreating \/ document = <<>> THEN TRUE
       ELSE e.content # document[1].content_md
               \/ e.title # document[1].title
               \/ e.isActive # document[1].is_active

\* The body the editor's handleSave sends: with workspace_id and key when
\* isNew, without them otherwise.
SaveBody(p) ==
    LET e == p.editor[1]
    IN IF p.isCreating
       THEN [workspace_id |-> <<currentWorkspace>>, key |-> <<e.key>>,
             title |-> <<e.title>>, content_md |-> <<e.content>>,
             is_active |-> <<e.isActive>>]
       ELSE [title |-> <<e.title>>, content_md |-> <<e.content>>,
             is_active |-> <<e.isActive>>]

\* The page's handleSave(doc), the editor's onSave: the new document joins
\* the list, or replaces the entry with its id; it becomes selectedDoc. The
\* editor stays rendered with its local state, which is what doc now stores.
handleSave(p, doc) ==
    LET documents ==
            IF p.isCreating THEN Append(p.documents, doc)
            ELSE [k \in DOMAIN p.documents |->
                     IF p.documents[k].id = doc.id THEN doc
                     ELSE p.documents[k]]
        q == Render([p EXCEPT !.documents = documents], <<doc>>, FALSE)
    IN [q EXCEPT !.editor[1].from =
            [title |-> doc.id, content |-> doc.id, isActive |-> doc.id]]

\* The editor's handleSave: the toast of the empty key or title aside, POST
\* /api/kb-documents when isNew, PATCH /api/kb-documents/[id] otherwise, and
\* onSave with the document of a success response.
EditorSave(s, K) ==
    LET p == page[s]
        e == p.editor[1]
        id == DocId(Document(p))
    IN /\ p.editor # <<>>
       /\ hasChanges(p)
       /\ e.key # "" /\ e.title # ""
       /\ IF p.isCreating
          THEN /\ CreateOutcome(SaveBody(p)) = "inserted" => nextId <= K.ids
               /\ Create(SaveBody(p))
               /\ page' = IF CreateOutcome(SaveBody(p)) = "inserted"
                          THEN [page EXCEPT ![s] = handleSave(p, KBDocument(table'[nextId]))]
                          ELSE page
          ELSE /\ Room(id, PatchUpdateData(SaveBody(p)), K.maxV, K.maxNoop)
               /\ Patch(id, SaveBody(p), TRUE)
               /\ page' = IF id \in DOMAIN table
                          THEN [page EXCEPT ![s] = handleSave(p, KBDocument(table'[id]))]
                          ELSE page

\* The sessions of K.sessions at the page; those of K.adders use "Add
\* Document".
StepPage(K) ==
    \/ \E s \in K.sessions :
          fetchDocuments(s) /\ UNCHANGED <<memo, cron, pub, ext>>
    \/ \E s \in K.sessions, k \in 1 .. K.ids :
          CardClick(s, k) /\ UNCHANGED <<memo, cron, pub, ext>>
    \/ \E s \in K.adders :
          AddDocument(s) /\ UNCHANGED <<memo, cron, pub, ext>>
    \/ \E s \in K.sessions :
          handleClose(s) /\ UNCHANGED <<memo, cron, pub, ext>>
    \/ \E s \in K.sessions, key \in K.keys :
          setKey(s, key) /\ UNCHANGED <<memo, cron, pub, ext>>
    \/ \E s \in K.sessions, title \in K.titles :
          setTitle(s, title) /\ UNCHANGED <<memo, cron, pub, ext>>
    \/ \E s \in K.sessions, content \in K.contents :
          setContent(s, content) /\ UNCHANGED <<memo, cron, pub, ext>>
    \/ \E s \in K.sessions, isActive \in K.actives :
          setIsActive(s, isActive) /\ UNCHANGED <<memo, cron, pub, ext>>
    \/ \E s \in K.sessions :
          EditorSave(s, K) /\ UNCHANGED <<memo, cron, pub, ext>>

\* One session, two documents, every Save of a document changing content.
Solo ==
    [sessions |-> {"s1"}, adders |-> {"s1"}, ids |-> 2,
     maxV |-> MaxVersionSolo, maxNoop |-> 0,
     keys |-> {"tone_of_voice", "brand_guidelines"},
     titles |-> {"T1"}, contents |-> {"A"}, actives |-> BOOLEAN]

\* Two sessions, one document, which the first of them adds.
Shared ==
    [sessions |-> {"s1", "s2"}, adders |-> {"s1"}, ids |-> 1,
     maxV |-> MaxVersionShared, maxNoop |-> MaxNoopShared,
     keys |-> {"tone_of_voice"},
     titles |-> {"T1"}, contents |-> {"A"}, actives |-> BOOLEAN]

NextSolo == StepPage(Solo)
NextShared == StepPage(Shared)

SpecSolo == Init /\ [][NextSolo]_vars
SpecShared == Init /\ [][NextShared]_vars

----------------------------------------------------------------------------
(* C22, C23: the editor of the knowledge-base page.                        *)

\* The step is a Save of session s that PATCHed a row.
Saved(s) ==
    /\ last'.op = "update" /\ last'.status = 200
    /\ page[s].editor # <<>> /\ ~page[s].isCreating
    /\ page[s].selectedDoc[1].id = last'.id
    /\ now' # now /\ page'[s] # page[s]

\* The title, content and active flag in the editor of page p are those of
\* its document prop, or were entered under that document prop.
OwnValues(p) ==
    LET id == DocId(Document(p))
        e == p.editor[1]
        document == Document(p)[1]
    IN /\ e.from.title = id \/ e.title = document.title
       /\ e.from.content = id \/ e.content = document.content_md
       /\ e.from.isActive = id \/ e.isActive = document.is_active

\* C22: a Save that PATCHes the selected document writes the title, the
\* content and the active flag that belong to that document or were typed
\* for it: never, after a switch of the selection (or from create mode) with
\* the editor left open, those of the document in the editor before.
C22_SaveWritesOwnValues ==
    [][\A s \in Sessions : Saved(s) => OwnValues(page[s])]_vars

\* A session has PATCHed document 2 from an editor that had document 1 in it
\* when document 2 was selected: the row and the page hold what document 1
\* held.
C22_Witness ==
    \E s \in Sessions :
        /\ last.op = "update" /\ last.status = 200 /\ last.id = 2
        /\ page[s].selectedDoc # <<>> /\ page[s].selectedDoc[1].id = 2
        /\ page[s].editor # <<>>
        /\ page[s].editor[1].key = table[1].key
        /\ table[2].content_md = table[1].content_md
        /\ table[2].content_md # ""

\* The user of page p has left the content in the editor as the page loaded
\* it, and every value in the editor belongs to the selected document.
ContentUntouched(p) ==
    /\ OwnValues(p)
    /\ p.editor[1].from.content = DocId(Document(p))
    /\ p.editor[1].content = p.selectedDoc[1].content_md

\* C23: with the same document open in two sessions, a Save of a session
\* whose user changed only the title or the active flag leaves content_md,
\* version and previous_versions of the row as they are, whatever the other
\* session has saved since the first one loaded the document.
C23_TitleSaveKeepsContent ==
    [][\A s \in Sessions :
          Saved(s) /\ ContentUntouched(page[s])
          => LET id == page[s].selectedDoc[1].id
             IN /\ table'[id].content_md = table[id].content_md
                /\ table'[id].version = table[id].version
                /\ table'[id].previous_versions = table[id].previous_versions]_vars

\* Both sessions have document 1 in their editors, one of them with content
\* that the row no longer has, and a PATCH has switched the document off.
C23_Witness ==
    /\ \A s \in Sessions :
          /\ page[s].editor # <<>> /\ page[s].selectedDoc # <<>>
          /\ page[s].selectedDoc[1].id = 1
    /\ \E s \in Sessions : page[s].selectedDoc[1].content_md # table[1].content_md
    /\ last.op = "update" /\ last.status = 200
    /\ ~table[1].is_active

----------------------------------------------------------------------------
(* GET /api/cron/daily-generate.                                           *)

\* if (cronSecret ...): whether JavaScript takes the secret as true.
Truthy(secret) == secret # <<>> /\ secret[1] # ""

\* `Bearer ${cronSecret}`: the scheme and what the template makes of the
\* secret, "undefined" where it is unset.
BearerOf(secret) ==
    <<"Bearer", IF secret = <<>> THEN "undefined" ELSE secret[1]>>

\* cronSecret && authHeader !== `Bearer ${cronSecret}`: the request is
\* turned away. header is <<>> where the request has no Authorization.
Unauthorized(secret, header) ==
    Truthy(secret) /\ header # BearerOf(secret)

\* The (workspace, platform) pairs in the order of the two loops; the order
\* of the workspaces is the one the select returns them in.
PairsOf(workspaces) ==
    LET n == Cardinality(workspaces)
        order == CHOOSE f \in [1 .. n -> workspaces] :
                    \A a, b \in 1 .. n : f[a] = f[b] => a = b
    IN [k \in 1 .. 2 * n |->
           [workspace |-> order[(k + 1) \div 2],
            platform |-> Platforms[2 - (k % 2)]]]

\* `${today}_${platform}_${workspace.id}`
idempotencyKey(today, pair) == <<today, pair.platform, pair.workspace>>

\* The invocation r past the pair it was at: on to the next pair, or to the
\* response when there is none.
Advance(r, status) ==
    LET results == Append(r.results, status)
    IN IF r.pos = Len(PairsOf(cron.workspaces))
       THEN [r EXCEPT !.pc = "idle", !.results = results, !.status = 200]
       ELSE [r EXCEPT !.pc = "check", !.results = results, !.pos = r.pos + 1]

\* The request arrives: the check of the secret, today, and the select of
\* the workspaces.
CronStart(i, header) ==
    /\ cron.inv[i].pc = "idle"
    /\ cron' = [cron EXCEPT !.inv[i] =
          IF Unauthorized(cron.secret, header)
          THEN [IdleInv EXCEPT !.header = header, !.status = 401]
          ELSE IF cron.workspaces = {}
          THEN [IdleInv EXCEPT !.header = header, !.status = 200,
                               !.read = TRUE]
          ELSE [IdleInv EXCEPT !.header = header, !.read = TRUE,
                               !.pc = "check", !.today = cron.day,
                               !.pos = 1]]
    /\ UNCHANGED <<kb, pub, ext>>

\* The select of the run with the pair's idempotency key: 'skipped' where
\* there is one.
CronCheck(i) ==
    LET r == cron.inv[i]
        key == idempotencyKey(r.today, PairsOf(cron.workspaces)[r.pos])
    IN /\ r.pc = "check"
       /\ cron' = [cron EXCEPT !.inv[i] =
             IF key \in cron.generation_runs
             THEN Advance(r, "skipped")
             ELSE [r EXCEPT !.pc = "generate"]]
       /\ UNCHANGED <<kb, pub, ext>>

\* POST /api/generation/generate of the FastAPI service, as the endpoint
\* relies on it: a generation that succeeds stores a run under the
\* idempotency key of the date, the platform and the workspace.
Generate(runs, day, pair, success) ==
    IF success THEN runs \cup {idempotencyKey(day, pair)} ELSE runs

\* The call of the generation endpoint for the pair and its response:
\* 'success' or 'failed'.
CronGenerate(i, success) ==
    LET r == cron.inv[i]
        pair == PairsOf(cron.workspaces)[r.pos]
        key == idempotencyKey(r.today, pair)
    IN /\ r.pc = "generate"
       /\ cron' = [cron EXCEPT
             !.generation_runs = Generate(@, cron.day, pair, success),
             !.calls = @ \cup {[key |-> key,
                                late |-> key \in cron.generation_runs]},
             !.inv[i] = [Advance(r, IF success THEN "success" ELSE "failed")
                            EXCEPT !.called = TRUE]]
       /\ UNCHANGED <<kb, pub, ext>>

\* The UTC date changes.
Midnight ==
    /\ cron.day < MaxDay
    /\ cron' = [cron EXCEPT !.day = @ + 1]
    /\ UNCHANGED <<kb, pub, ext>>

\* The secrets a deployment may have, and the Authorization headers of the
\* requests explored.
Secrets == {<<>>, <<"">>, <<"s3cret">>}
Headers == {<<>>, <<"Bearer", "s3cret">>, <<"Bearer", "wrong">>}

InitCron ==
    /\ InitKB
    /\ cron \in {[NoCron EXCEPT !.secret = secret, !.workspaces = workspaces] :
                    secret \in Secrets, workspaces \in {{}, {"w1"}}}
    /\ pub = NoPub
    /\ ext = NoExt

NextCron ==
    \/ \E i \in Invocations, header \in Headers : CronStart(i, header)
    \/ \E i \in Invocations : CronCheck(i)
    \/ \E i \in Invocations, success \in BOOLEAN : CronGenerate(i, success)
    \/ Midnight

SpecCron == InitCron /\ [][NextCron]_vars

----------------------------------------------------------------------------
(* C24, C25: the cron endpoint.                                            *)

\* C24: on one UTC day, once a generation for a (workspace, platform) pair
\* has succeeded, no invocation, overlapping ones included, issues another
\* generation request for the pair, and the pair is reported as skipped.
C24_DailyIdempotent ==
    [][/\ \A c \in cron'.calls : ~c.late
       /\ \A i \in Invocations :
             LET r == cron.inv[i]
             IN r.pc = "check" /\ cron'.inv[i] # r
                /\ idempotencyKey(r.today, PairsOf(cron.workspaces)[r.pos])
                      \in cron.generation_runs
                => cron'.inv[i].results = Append(r.results, "skipped")]_vars

\* An invocation has reported a pair as skipped and has called the
\* generation endpoint for another.
C24_Witness ==
    \E i \in Invocations :
        /\ cron.inv[i].pc = "idle" /\ cron.inv[i].status = 200
        /\ cron.inv[i].results = <<"skipped", "success">>

\* The invocation has handled a request, or is handling one.
Handled(r) == r.pc # "idle" \/ r.status # 0

\* C25: whatever CRON_SECRET is, set or unset, a request whose Authorization
\* header is not 'Bearer <CRON_SECRET>' is answered with 401, reads no
\* workspace and calls no generation.
C25_UnauthorizedRejected ==
    \A i \in Invocations :
        LET r == cron.inv[i]
        IN Handled(r) /\ r.header # BearerOf(cron.secret)
           => r.status = 401 /\ ~r.read /\ ~r.called

\* With a secret set, a request with another secret has been answered 401.
C25_Witness ==
    \E i \in Invocations :
        /\ Truthy(cron.secret)
        /\ cron.inv[i].header = <<"Bearer", "wrong">>
        /\ cron.inv[i].status = 401

----------------------------------------------------------------------------
(* PATCH /api/publish/[id]/metrics and POST /api/publish.                  *)

\* The merge that starts from nothing: the stored keys are dropped.
newMetrics_Replace(existing, body) ==
    LET given == MetricFields \cap DOMAIN body
    IN [k \in given |-> body[k]]

\* { ...(existing.metrics || {}), ...(field !== undefined && { field }) }
\* for the five fields: a field of the body is undefined where the body has
\* no such key.
newMetrics(existing, body) ==
    LET given == MetricFields \cap DOMAIN body
    IN [k \in DOMAIN existing \cup given |->
           IF k \in given THEN body[k] ELSE existing[k]]

\* PATCH metrics up to its select of the stored metrics: 404 where the
\* select finds no row.
MetricsFetch(c, id, body) ==
    /\ pub.patch[c].pc = "idle"
    /\ pub' = IF id \in DOMAIN pub.published_posts
              THEN [pub EXCEPT !.patch[c] =
                      [pc |-> "update", id |-> id, body |-> body,
                       existing |-> pub.published_posts[id].metrics]]
              ELSE [pub EXCEPT !.res =
                      PubResponse("metrics", id, 404, ~pub.res.tick)]
    /\ UNCHANGED <<kb, cron, ext>>

\* PATCH metrics from its update to its response.
MetricsUpdate(c) ==
    LET r == pub.patch[c]
    IN /\ r.pc = "update"
       /\ pub' = [pub EXCEPT
             !.published_posts[r.id].metrics = newMetrics(r.existing, r.body),
             !.patch[c] = IdlePatcher,
             !.res = PubResponse("metrics", r.id, 200, ~pub.res.tick)]
       /\ UNCHANGED <<kb, cron, ext>>

\* How POST /api/publish ends, given whether the insert succeeds: 400, 404,
\* 500 or the insert.
PublishOutcome(body, insertOk) ==
    IF body.draft_id = <<>> \/ body.mode = <<>> THEN 400
    ELSE IF body.draft_id[1] \notin DOMAIN pub.drafts THEN 404
    ELSE IF ~insertOk THEN 500
    ELSE 200

\* update({ status: 'used' }).in('id', sourceIds)
MarkUsed(sources, sourceIds) ==
    [x \in DOMAIN sources |->
        IF \E k \in DOMAIN sourceIds : sourceIds[k] = x THEN "used"
        ELSE sources[x]]

\* POST /api/publish. insertOk: the insert of the published post succeeds;
\* sourcesOk: so do the select of source_ids and the update of the sources,
\* whose errors the handler does not look at.
Publish(body, insertOk, sourcesOk) ==
    LET status == PublishOutcome(body, insertOk)
        draft_id == body.draft_id[1]
        id == pub.nextPost
    IN /\ pub' = IF status = 200
                 THEN [pub EXCEPT
                         !.published_posts =
                            [i \in DOMAIN pub.published_posts \cup {id} |->
                                IF i = id
                                THEN [id |-> id, draft_id |-> draft_id,
                                      mode |-> body.mode[1], metrics |-> <<>>]
                                ELSE pub.published_posts[i]],
                         !.nextPost = id + 1,
                         !.sources =
                            IF sourcesOk
                            THEN MarkUsed(@, pub.drafts[draft_id].source_ids)
                            ELSE @,
                         !.res = PubResponse("publish", draft_id, 200,
                                             ~pub.res.tick)]
                 ELSE [pub EXCEPT
                         !.res = PubResponse("publish",
                                    IF body.draft_id = <<>> THEN 0
                                    ELSE body.draft_id[1],
                                    status, ~pub.res.tick)]
       /\ UNCHANGED <<kb, cron, ext>>

\* The requests explored: K names the inputs. Where K.sequential, a request
\* starts only when no metrics request is under way.
StepPub(K) ==
    \/ \E c \in K.patchers, id \in 1 .. K.posts + 1, body \in K.bodies :
          /\ K.sequential => \A d \in Patchers : pub.patch[d].pc = "idle"
          /\ MetricsFetch(c, id, body)
    \/ \E c \in K.patchers : MetricsUpdate(c)
    \/ \E body \in K.publishes, insertOk, sourcesOk \in BOOLEAN :
          /\ K.sequential => \A d \in Patchers : pub.patch[d].pc = "idle"
          /\ PublishOutcome(body, insertOk) = 200 => pub.nextPost <= K.posts
          /\ Publish(body, insertOk, sourcesOk)

\* The metrics bodies with keys among keys and values among values.
MetricBodies(keys, values) ==
    UNION {[D -> values] : D \in SUBSET keys}

\* Few published posts, one request at a time, metrics bodies of every kind.
Metrics ==
    [sequential |-> TRUE, patchers |-> {"p1"}, posts |-> MaxPostsMetrics,
     bodies |->
        MetricBodies({"likes", "clicks"}, {0, 7})
        \cup {b \in MetricBodies({"likes", "clicks", "shares"}, {7}) :
                 "shares" \in DOMAIN b},
     publishes |-> [draft_id : {<<1>>}, mode : {<<"manual">>}]]

\* One published post, the metrics requests of two clients interleaved.
MetricsRace ==
    [sequential |-> FALSE, patchers |-> {"p1", "p2"}, posts |-> 1,
     bodies |-> MetricBodies({"likes", "clicks"}, {7}),
     publishes |-> [draft_id : {<<1>>}, mode : {<<"manual">>}]]

\* Several published posts, publish requests of every kind, one request at
\* a time.
Posts ==
    [sequential |-> TRUE, patchers |-> {"p1"}, posts |-> MaxPosts,
     bodies |-> MetricBodies({"likes"}, {7}),
     publishes |-> [draft_id : Opt({1, 2, 9}), mode : Opt({"manual"})]]

NextMetrics == StepPub(Metrics)
NextMetricsRace == StepPub(MetricsRace)
NextPub == StepPub(Posts)

SpecMetrics == Init /\ [][NextMetrics]_vars
SpecMetricsRace == Init /\ [][NextMetricsRace]_vars
SpecPub == Init /\ [][NextPub]_vars

----------------------------------------------------------------------------
(* C26, C27, C28: publishing.                                              *)

\* The step is the update and the response of the metrics request of c.
MetricsDone(c) ==
    pub.patch[c].pc = "update" /\ pub'.patch[c].pc = "idle"

\* The step is the response of handler op with the given status.
Answered(op, status) ==
    pub'.res # pub.res /\ pub'.res.op = op /\ pub'.res.status = status

\* C26: PATCH metrics merges with the stored metrics: the fields among
\* impressions, likes, comments, reposts and clicks that the request has
\* take the request's values, every other stored key keeps its value, and
\* no other key appears; an unknown post id is answered 404 and nothing is
\* written.
C26_MetricsMerge ==
    [][/\ \A c \in Patchers :
             MetricsDone(c) =>
                LET r == pub.patch[c]
                    old == pub.published_posts[r.id].metrics
                    new == pub'.published_posts[r.id].metrics
                    given == MetricFields \cap DOMAIN r.body
                IN /\ pub'.res.status = 200
                   /\ DOMAIN new = DOMAIN old \cup given
                   /\ \A k \in given : new[k] = r.body[k]
                   /\ \A k \in DOMAIN old \ given : new[k] = old[k]
                   /\ \A i \in DOMAIN pub.published_posts \ {r.id} :
                         pub'.published_posts[i] = pub.published_posts[i]
       /\ pub'.res # pub.res /\ pub'.res.op = "metrics"
             /\ pub'.res.id \notin DOMAIN pub.published_posts
             => /\ pub'.res.status = 404
                /\ pub'.published_posts = pub.published_posts
                /\ pub'.sources = pub.sources]_vars

\* Post 1 holds likes 0 and clicks 7 after metrics requests that succeeded,
\* the last of them with a key that is none of the five.
C26_Witness ==
    /\ pub.res.op = "metrics" /\ pub.res.status = 200 /\ pub.res.id = 1
    /\ DOMAIN pub.published_posts[1].metrics = {"likes", "clicks"}
    /\ pub.published_posts[1].metrics["likes"] = 0
    /\ pub.published_posts[1].metrics["clicks"] = 7

\* The keys of the stored metrics m that the request r has not read as they
\* are: another request has written them since r's select.
WrittenSince(r, m) ==
    {k \in DOMAIN m : k \notin DOMAIN r.existing \/ r.existing[k] # m[k]}

\* C27: two metrics requests on one post that overlap and set disjoint
\* fields lose no update: when the second of them succeeds, the stored
\* metrics hold its values and the values the other has written meanwhile.
C27_NoLostMetrics ==
    [][\A c \in Patchers :
          LET r == pub.patch[c]
              old == pub.published_posts[r.id].metrics
              new == pub'.published_posts[r.id].metrics
              given == MetricFields \cap DOMAIN r.body
          IN MetricsDone(c) /\ pub'.res.status = 200
             /\ WrittenSince(r, old) \cap given = {}
             => /\ \A k \in given : k \in DOMAIN new /\ new[k] = r.body[k]
                /\ \A k \in WrittenSince(r, old) :
                      k \in DOMAIN new /\ new[k] = old[k]]_vars

\* Two metrics requests on post 1 are under way at once, one setting likes,
\* the other clicks.
C27_Witness ==
    /\ pub.patch["p1"].pc = "update" /\ pub.patch["p2"].pc = "update"
    /\ pub.patch["p1"].id = 1 /\ pub.patch["p2"].id = 1
    /\ DOMAIN pub.patch["p1"].body = {"likes"}
    /\ DOMAIN pub.patch["p2"].body = {"clicks"}

\* C28: when POST /api/publish answers success for a draft, a published post
\* of the draft exists and every source of the draft's source_ids has status
\* 'used'; when it answers 400 (no draft_id or mode) or 404 (no such draft),
\* no published post is created and no source changes.
C28_PublishMarksSources ==
    [][/\ Answered("publish", 200) =>
             LET d == pub'.res.id
             IN /\ \E i \in DOMAIN pub'.published_posts :
                      pub'.published_posts[i].draft_id = d
                /\ \A k \in DOMAIN pub.drafts[d].source_ids :
                      pub'.sources[pub.drafts[d].source_ids[k]] = "used"
       /\ Answered("publish", 400) \/ Answered("publish", 404)
             => /\ pub'.published_posts = pub.published_posts
                /\ pub'.sources = pub.sources]_vars

\* Draft 1 has been published: its post exists, its two sources are 'used'
\* and the third source is as it was.
C28_Witness ==
    /\ pub.res.op = "publish" /\ pub.res.status = 200 /\ pub.res.id = 1
    /\ \E i \in DOMAIN pub.published_posts : pub.published_posts[i].draft_id = 1
    /\ pub.sources["s1"] = "used" /\ pub.sources["s2"] = "used"
    /\ pub.sources["s3"] = "new"

----------------------------------------------------------------------------
(* The browser extension's service worker: sessions and saveSource.        *)

\* The expiry test with no margin: expired sessions only.
Expiring_Past(session, t) ==
    /\ session.expires_at # <<>> /\ session.expires_at[1] # 0
    /\ session.expires_at[1] - t < 0

\* session.expires_at && session.expires_at - now < 300
Expiring(session, t) ==
    /\ session.expires_at # <<>> /\ session.expires_at[1] # 0
    /\ session.expires_at[1] - t < 300

\* refreshSession(refreshToken) at time t, ok telling whether the auth
\* server answers the request with a session: what it returns (<<>>: null)
\* and what storage holds afterwards.
refreshSession(stored, refreshToken, t, ok) ==
    IF refreshToken = <<>> \/ ~ok
    THEN [returned |-> <<>>, kept |-> stored, refreshed |-> FALSE]
    ELSE LET newSession == Session("a1", <<"r1">>, <<t + 3600>>)
         IN [returned |-> <<newSession>>, kept |-> <<newSession>>,
             refreshed |-> TRUE]

\* getValidSession() at time t.
getValidSession(stored, t, ok) ==
    IF stored = <<>>
    THEN [returned |-> <<>>, kept |-> stored, refreshed |-> FALSE]
    ELSE IF Expiring(stored[1], t)
    THEN refreshSession(stored, stored[1].refresh_token, t, ok)
    ELSE [returned |-> stored, kept |-> stored, refreshed |-> FALSE]

\* onMessageExternal, AUTH_SESSION: the session of the web app is stored.
AuthSession(session) ==
    /\ ext' = [ext EXCEPT !.session = <<session>>]
    /\ UNCHANGED <<kb, cron, pub>>

\* onMessage, DISCONNECT: the session is removed.
Disconnect ==
    /\ ext.session # <<>>
    /\ ext' = [ext EXCEPT !.session = <<>>]
    /\ UNCHANGED <<kb, cron, pub>>

\* onMessage, GET_SESSION: getValidSession() for the popup.
GetSession(ok) ==
    LET g == getValidSession(ext.session, ext.clock, ok)
    IN /\ ext' = [ext EXCEPT
             !.session = g.kept,
             !.out = ExtOutcome("get", ext.session, ext.clock, g.returned,
                                g.refreshed, g.kept, FALSE)]
       /\ UNCHANGED <<kb, cron, pub>>

\* saveSource: getValidSession(), then the quick-add request unless it
\* returned null.
saveSource(ok) ==
    LET g == getValidSession(ext.session, ext.clock, ok)
    IN /\ ext' = [ext EXCEPT
             !.session = g.kept,
             !.out = ExtOutcome("save", ext.session, ext.clock, g.returned,
                                g.refreshed, g.kept, g.returned # <<>>)]
       /\ UNCHANGED <<kb, cron, pub>>

\* Time passes: a hundred seconds.
Tick ==
    /\ ext.clock < 1000 + 100 * MaxTicks
    /\ ext' = [ext EXCEPT !.clock = @ + 100]
    /\ UNCHANGED <<kb, cron, pub>>

\* The sessions the web app hands over: with and without a refresh token,
\* with no expiry, one 200 seconds and one 500 seconds after the start.
Handovers ==
    {Session("a0", r, e) : r \in Opt({"r0"}), e \in Opt({1200, 1500})}

NextExt ==
    \/ \E session \in Handovers : AuthSession(session)
    \/ Disconnect
    \/ \E ok \in BOOLEAN : GetSession(ok)
    \/ \E ok \in BOOLEAN : saveSource(ok)
    \/ Tick

SpecExt == Init /\ [][NextExt]_vars

----------------------------------------------------------------------------
(* C29: the extension's session.                                           *)

\* C29: getValidSession never returns the stored session as it is when its
\* expires_at is set and less than 300 seconds ahead: it returns the
\* refreshed session, which is then the one in storage, or null; it returns
\* null when nothing is stored; and saveSource sends no quick-add request
\* when it returns null.
C29_ValidSessionOrNull ==
    LET o == ext.out
    IN o.op \in {"get", "save"} =>
          /\ o.stored = <<>> => o.returned = <<>>
          /\ o.stored # <<>> /\ o.stored[1].expires_at # <<>>
                /\ o.stored[1].expires_at[1] - o.at < 300
                => \/ o.returned = <<>>
                   \/ /\ o.refreshed /\ o.returned # o.stored
                      /\ o.kept = o.returned
          /\ o.returned = <<>> => ~o.quickAdd
          /\ o.returned # <<>> /\ ~o.refreshed => o.returned = o.stored

\* saveSource has found a session due within 300 seconds, refreshed it and
\* sent the quick-add request.
C29_Witness ==
    /\ ext.out.op = "save" /\ ext.out.refreshed /\ ext.out.quickAdd
    /\ ext.out.stored # <<>>
    /\ ext.out.stored[1].expires_at = <<1500>> /\ ext.out.at = 1300
    /\ ext.session = ext.out.returned

====
